---- MODULE Spec2Model ----
(***************************************************************************)
(* Model of the fetch-translate-merge pipeline of backend/get_recipes.py   *)
(* (translate_text, get_and_translate_recipe) and of the HTTP boundary of  *)
(* backend/app.py (search_recipe).                                         *)
(*                                                                         *)
(* Python strings are sequences of tokens; the three phrases the boundary  *)
(* searches for ("Quota Exceeded", "Unauthorized", "No recipes found") are *)
(* single tokens, so `phrase in text` is membership of the token.          *)
(* An optional value is a sequence of length 0 (None) or 1 (the value).    *)
(***************************************************************************)
EXTENDS Integers, Sequences, FiniteSets, TLC

\* ---------------------------------------------------------------- bounds
\* longest extendedIngredients list the recipe provider returns
MaxIngredients == 2

\* ------------------------------------------------------ values and texts
None == <<>>
Some(x) == <<x>>
Val(o) == o[1]

\* Python truthiness of an optional string: None and "" are falsy
Truthy(o) == o # None /\ Val(o) # <<>>

\* `phrase in text`
Contains(text, phrase) == \E i \in 1..Len(text) : text[i] = phrase

\* texts the environment can supply
DishNames == {None, Some(<<>>), Some(<<"ratatouille">>), Some(<<"Unauthorized">>)}
Cuisines == {<<"French">>, <<"Italian">>}
BodyTexts == {<<"daily points limit reached">>, <<"Quota Exceeded">>}
IngredientTexts == {<<"2 zucchini">>, <<"1 eggplant">>}
Titles == {None, Some(<<>>), Some(<<"Ratatouille">>)}
ReadyTimes == {None, Some(45)}
HeaderValues == {None, Some(<<"1">>)}
Statuses == {200, 401, 402, 403, 404, 500}

\* requests.get is called without a timeout, so it raises ConnectionError or
\* another RequestException (e.g. TooManyRedirects) but never Timeout
ExcKinds == {"ConnectionError", "RequestException"}

\* outcome of translator.translate_text for one call
Outcomes == {"ok", "DeepLError", "Exception"}

\* ------------------------------------------------- the provider's answer
\* an extendedIngredients item: a JSON object with an optional 'original'
\* field, or a JSON value that is not an object
Entries ==
    [isdict : {TRUE}, original : {None, Some(<<>>)} \cup {Some(t) : t \in IngredientTexts}]
    \cup {[isdict |-> FALSE, original |-> None]}

SeqsUpTo(S, n) == UNION {[1..k -> S] : k \in 0..n}

\* 'extendedIngredients': absent, JSON null, or a list
IngredientLists ==
    {[kind |-> "missing", items |-> <<>>], [kind |-> "null", items |-> <<>>]}
    \cup [kind : {"list"}, items : SeqsUpTo(Entries, MaxIngredients)]

Recipes == [title : Titles, readyInMinutes : ReadyTimes, extendedIngredients : IngredientLists]

NoRecipe == [title |-> None, readyInMinutes |-> None,
             extendedIngredients |-> [kind |-> "missing", items |-> <<>>]]

\* shapes of the body of a 2xx answer
OtherShapes == {"invalid_json_request_exception", "invalid_json_value_error",
                "null", "array", "no_results_key", "results_empty",
                "results_object", "results_first_not_object"}

Headers == [request : HeaderValues, used : HeaderValues, left : HeaderValues]
NoHeaders == [request |-> None, used |-> None, left |-> None]

\* what requests.get does: raise, or return a response
Worlds ==
    [exc : ExcKinds, status : {0}, text : BodyTexts, headers : {NoHeaders},
     shape : {"none"}, recipe : {NoRecipe}]
    \cup
    [exc : {"none"}, status : Statuses \ {200}, text : BodyTexts, headers : Headers,
     shape : {"none"}, recipe : {NoRecipe}]
    \cup
    [exc : {"none"}, status : {200}, text : {<<>>}, headers : Headers,
     shape : OtherShapes, recipe : {NoRecipe}]
    \cup
    [exc : {"none"}, status : {200}, text : {<<>>}, headers : Headers,
     shape : {"found"}, recipe : Recipes]

\* the translator is asked once per translatable item at most: the oracle
\* gives the outcome of the k-th call of translator.translate_text
NumTranslatable(recipe) ==
    (IF Truthy(recipe.title) THEN 1 ELSE 0)
    + Cardinality({i \in 1..Len(recipe.extendedIngredients.items) :
                     Truthy(recipe.extendedIngredients.items[i].original)})
Oracles(w) == [1..NumTranslatable(w.recipe) -> Outcomes]

\* ------------------------------------------------------------- messages
MsgUnauthorized == <<"Spoonacular API: ", "Unauthorized", ". Check your API key.">>
MsgQuota == <<"Spoonacular API: ", "Quota Exceeded", ". You've reached your daily limit.">>
MsgEndpoint == <<"Spoonacular API: Endpoint not found. Check URL.">>
MsgNoRecipes(query, cuisine) ==
    <<"No recipes found", " for '">> \o query \o <<"' in ">> \o cuisine \o <<" cuisine.">>
MsgHTTPError(status, text) ==
    <<"HTTP Error from Spoonacular API: ", ToString(status), " - ">> \o text
MsgConnection(detail) ==
    <<"Connection Error to Spoonacular API: ">> \o detail
    \o <<". Check internet connection or API server.">>
MsgTimeout(detail) ==
    <<"Timeout Error from Spoonacular API: ">> \o detail \o <<". API server too slow.">>
MsgRequest(detail) == <<"General Request Error from Spoonacular API: ">> \o detail
MsgKeyError(key) ==
    <<"Error parsing Spoonacular JSON response: Missing expected key '", key,
      "'. Response structure might have changed.">>
MsgUnexpected(detail) ==
    <<"An unexpected error occurred during recipe fetching/processing: ">> \o detail

\* ------------------------------------------------------- translate_text
\* the module exits at import time unless the translator was built
translator_initialised == TRUE

translate_text(text, outcome) ==
    IF text = <<>> THEN <<>>
    ELSE IF ~translator_initialised
         THEN <<"[Translation Error: DeepL translator not initialized]">>
    ELSE CASE outcome = "ok" -> <<"fr:">> \o text
           [] outcome = "DeepLError" -> <<"[Translation API Error]">>
           [] OTHER -> <<"[Translation Error]">>

\* ------------------------------------------- get_and_translate_recipe
recipe_data_init ==
    [title_en |-> None, title_fr |-> None, cooking_time_minutes |-> None,
     ingredients |-> <<>>,
     spoonacular_quota |-> [request |-> None, used_total |-> None, left |-> None],
     error |-> None]

\* the loop with the new pair put in front of the list instead of at its end
RECURSIVE translate_ingredients_prepend(_, _, _, _)
translate_ingredients_prepend(items, i, tr, st) ==
    IF i > Len(items) THEN st
    ELSE IF ~items[i].isdict
         THEN [st EXCEPT !.raised = Some(<<"object has no attribute 'get'">>)]
    ELSE LET original_name == items[i].original IN
         IF Truthy(original_name)
         THEN LET k == Len(st.calls) + 1
                  translated_name == translate_text(Val(original_name), tr[k])
              IN translate_ingredients_prepend(items, i + 1, tr,
                    [st EXCEPT
                       !.calls = Append(@, [text |-> Val(original_name), outcome |-> tr[k]]),
                       !.data.ingredients =
                           <<[name_en |-> Val(original_name),
                              name_fr |-> translated_name]>> \o @])
         ELSE translate_ingredients_prepend(items, i + 1, tr, st)

\* the `for ingredient_data in ingredients_list` loop from item i on; st holds
\* the envelope built so far, the translate_text calls made so far and the
\* exception the loop raised, if any
RECURSIVE translate_ingredients(_, _, _, _)
translate_ingredients(items, i, tr, st) ==
    IF i > Len(items) THEN st
    ELSE IF ~items[i].isdict
         THEN [st EXCEPT !.raised = Some(<<"object has no attribute 'get'">>)]
    ELSE LET original_name == items[i].original IN
         IF Truthy(original_name)
         THEN LET k == Len(st.calls) + 1
                  translated_name == translate_text(Val(original_name), tr[k])
              IN translate_ingredients(items, i + 1, tr,
                    [st EXCEPT
                       !.calls = Append(@, [text |-> Val(original_name), outcome |-> tr[k]]),
                       !.data.ingredients =
                           Append(@, [name_en |-> Val(original_name),
                                      name_fr |-> translated_name])])
         ELSE translate_ingredients(items, i + 1, tr, st)

\* lines 141-161: a recipe was matched
process_first_recipe(first_recipe, tr, data) ==
    LET d1 == [data EXCEPT !.title_en = first_recipe.title,
                           !.cooking_time_minutes = first_recipe.readyInMinutes]
        st1 == IF Truthy(d1.title_en)
               THEN [data |-> [d1 EXCEPT !.title_fr =
                                  Some(translate_text(Val(d1.title_en), tr[1]))],
                     calls |-> <<[text |-> Val(d1.title_en), outcome |-> tr[1]]>>,
                     raised |-> None]
               ELSE [data |-> d1, calls |-> <<>>, raised |-> None]
        ingredients_list == first_recipe.extendedIngredients
    IN IF ingredients_list.kind = "null"
       THEN [st1 EXCEPT !.raised = Some(<<"'NoneType' object is not iterable">>)]
       ELSE translate_ingredients(ingredients_list.items, 1, tr, st1)

\* lines 132-165: the body of a response that raise_for_status accepted
process_response(query, cuisine, w, tr, data) ==
    LET quota == [request |-> w.headers.request, used_total |-> w.headers.used,
                  left |-> w.headers.left]
        d0 == [data EXCEPT !.spoonacular_quota = quota]
        fail(d, msg) == [data |-> [d EXCEPT !.error = Some(msg)], calls |-> <<>>]
    IN CASE w.shape = "invalid_json_request_exception" ->
              fail(data, MsgRequest(<<"Expecting value">>))
         [] w.shape = "invalid_json_value_error" ->
              fail(data, MsgUnexpected(<<"Expecting value">>))
         [] w.shape \in {"null", "no_results_key", "results_empty"} ->
              fail(d0, MsgNoRecipes(query, cuisine))
         [] w.shape = "array" ->
              fail(d0, MsgUnexpected(<<"'list' object has no attribute 'get'">>))
         [] w.shape = "results_object" -> fail(d0, MsgKeyError("0"))
         [] w.shape = "results_first_not_object" ->
              fail(d0, MsgUnexpected(<<"'str' object has no attribute 'get'">>))
         [] OTHER ->
              LET st == process_first_recipe(w.recipe, tr, d0) IN
              IF st.raised = None
              THEN [data |-> st.data, calls |-> st.calls]
              ELSE [data |-> [st.data EXCEPT !.error = Some(MsgUnexpected(Val(st.raised)))],
                    calls |-> st.calls]

\* response.raise_for_status(): HTTPError for every 4xx and 5xx
raise_for_status(status) == status >= 400

\* the whole function: the envelope it returns, the translate_text calls it
\* made in order, and the number of requests.get calls
get_and_translate_recipe(query, cuisine, w, tr) ==
    LET data == recipe_data_init
        ret(d, c) == [data |-> d, calls |-> c, searches |-> 1]
        err(d, msg) == ret([d EXCEPT !.error = Some(msg)], <<>>)
    IN IF w.exc = "ConnectionError" THEN err(data, MsgConnection(w.text))
       ELSE IF w.exc = "Timeout" THEN err(data, MsgTimeout(w.text))
       ELSE IF w.exc = "RequestException" THEN err(data, MsgRequest(w.text))
       ELSE IF w.status = 401 THEN err(data, MsgUnauthorized)
       ELSE IF w.status = 404 THEN err(data, MsgEndpoint)
       ELSE LET \* 402 records the quota message and falls through
                d402 == IF w.status = 402
                        THEN [data EXCEPT !.error = Some(MsgQuota)] ELSE data
            IN IF raise_for_status(w.status)
               THEN \* except HTTPError: the message is replaced, lines 132-165
                    \* (the quota headers among them) are skipped
                    err(d402, MsgHTTPError(w.status, w.text))
               ELSE LET r == process_response(query, cuisine, w, tr, d402)
                    IN ret(r.data, r.calls)

\* ------------------------------------------------------- search_recipe
\* names bound in the module namespace of app.py when a request arrives:
\* `from flask import Flask, request, jsonify`,
\* `from get_recipes import get_and_translate_recipe`, and the module's own
\* definitions. The handler reads `requests.args`.
app_globals == {"Flask", "request", "jsonify", "get_and_translate_recipe",
                "app", "home", "search_recipe"}

\* lines 31-39: the status the handler gives an envelope whose error is set
status_code(error) ==
    IF Contains(error, "Quota Exceeded") \/ Contains(error, "Unauthorized") THEN 402
    ELSE IF Contains(error, "No recipes found") THEN 404
    ELSE 500

\* lines 31-42: the status the handler gives the envelope the pipeline returned
envelope_status(data) ==
    IF data.error # None /\ Val(data.error) # <<>>
    THEN status_code(Val(data.error))
    ELSE 200

\* body kinds of an HTTP answer
\*   "envelope"       jsonify(recipe_data)
\*   "missing_param"  the fixed {"error": "Missing 'dish' query parameter..."}
\*   "error_page"     the server's own page for an unhandled exception
NoResponse == [status |-> 0, body |-> "none"]

\* the handler for GET /api/search?dish=<dish>; r is what the pipeline
\* returns when the handler calls it
search_recipe(dish_query, r) ==
    IF "requests" \notin app_globals
    THEN \* line 17 raises NameError; the framework answers 500
         [response |-> [status |-> 500, body |-> "error_page"], called |-> FALSE]
    ELSE IF ~Truthy(dish_query)
    THEN [response |-> [status |-> 400, body |-> "missing_param"], called |-> FALSE]
    ELSE [response |-> [status |-> envelope_status(r.data), body |-> "envelope"],
          called |-> TRUE]

\* ---------------------------------------------------------------- state
VARIABLES
    dish,         \* the request's dish parameter / the query argument
    cuisine,      \* the cuisine argument
    world,        \* what the recipe provider does when asked
    phase,        \* "start", "returned" (pipeline called directly), "responded"
    recipe_data,  \* the envelope the pipeline returned
    calls,        \* translate_text calls of the pipeline, in order
    searches,     \* requests.get calls of the pipeline
    response      \* the HTTP answer of search_recipe

vars == <<dish, cuisine, world, phase, recipe_data, calls, searches, response>>

Init ==
    /\ dish \in DishNames
    /\ cuisine \in Cuisines
    /\ world \in Worlds
    /\ phase = "start"
    /\ recipe_data = recipe_data_init
    /\ calls = <<>>
    /\ searches = 0
    /\ response = NoResponse

\* a caller (the script's main block, or any importer) calls the pipeline
CallPipeline ==
    /\ phase = "start"
    /\ dish # None
    /\ \E tr \in Oracles(world) :
         LET r == get_and_translate_recipe(Val(dish), cuisine, world, tr) IN
         /\ recipe_data' = r.data
         /\ calls' = r.calls
         /\ searches' = r.searches
    /\ phase' = "returned"
    /\ UNCHANGED <<dish, cuisine, world, response>>

\* a client requests /api/search; the handler always passes cuisine "French"
HttpRequest ==
    /\ phase = "start"
    /\ cuisine = <<"French">>
    /\ \E tr \in Oracles(world) :
         LET r == get_and_translate_recipe(IF dish = None THEN <<>> ELSE Val(dish),
                                           <<"French">>, world, tr)
             h == search_recipe(dish, r)
         IN /\ response' = h.response
            /\ recipe_data' = IF h.called THEN r.data ELSE recipe_data
            /\ calls' = IF h.called THEN r.calls ELSE calls
            /\ searches' = IF h.called THEN r.searches ELSE searches
    /\ phase' = "responded"
    /\ UNCHANGED <<dish, cuisine, world>>

Next == CallPipeline \/ HttpRequest

Spec == Init /\ [][Next]_vars

\* ------------------------------------------------------------ properties
Returned == phase = "returned"
Responded == phase = "responded"
Answered(s) == world.exc = "none" /\ world.status = s
ErrorSet == recipe_data.error # None

\* the provider matched a recipe of the documented shape: the ingredient list
\* is absent or a list of objects
WellFormedFound ==
    /\ Answered(200)
    /\ world.shape = "found"
    /\ world.recipe.extendedIngredients.kind # "null"
    /\ \A i \in 1..Len(world.recipe.extendedIngredients.items) :
          world.recipe.extendedIngredients.items[i].isdict

HasText(e) == e.original # None /\ Val(e.original) # <<>>
TextItems == SelectSeq(world.recipe.extendedIngredients.items, HasText)
TitleCalls == IF world.recipe.title \in {None, Some(<<>>)} THEN 0 ELSE 1
Placeholders == {<<"[Translation API Error]">>, <<"[Translation Error]">>}

\* C1 (as claimed): a 402 answer of the provider yields an envelope with
\* error set, which the boundary's mapping answers with 402, whatever the
\* body of the provider's answer.
C1_Original ==
    (Returned /\ Truthy(dish) /\ Answered(402)) =>
        (ErrorSet /\ envelope_status(recipe_data) = 402)

\* C2 (as claimed): a 401 or 403 answer of the provider is answered with the
\* client-auth-error class, which is neither 402 nor 500.
C2_Original ==
    (Returned /\ Truthy(dish) /\ (Answered(401) \/ Answered(403))) =>
        (ErrorSet /\ envelope_status(recipe_data) \in {401, 403})

\* C3 (as claimed): for every non-empty dish name and every cuisine, an empty
\* result set yields error = "no recipes found", a null title, no
\* ingredients, no translation call, and status 404.
C3_Original ==
    (Returned /\ Truthy(dish) /\ Answered(200) /\ world.shape = "results_empty") =>
        /\ ErrorSet
        /\ Contains(Val(recipe_data.error), "No recipes found")
        /\ recipe_data.title_en = None
        /\ recipe_data.ingredients = <<>>
        /\ calls = <<>>
        /\ envelope_status(recipe_data) = 404

\* C4 (as claimed): after the provider round-trip exactly one of
\* {error set, title_en non-null} holds in the returned envelope.
C4_Original ==
    (Returned /\ world.exc = "none") =>
        (ErrorSet <=> recipe_data.title_en = None)

\* C5: for a found recipe the translate_text calls are the title (when
\* non-empty) followed by the original text of each ingredient entry that
\* has one, in the provider's order; the output ingredients are exactly those
\* entries, in the same order, each paired with the result of its own call.
C5_CallsAndOrder ==
    (Returned /\ WellFormedFound) =>
        /\ Len(calls) = TitleCalls + Len(TextItems)
        /\ TitleCalls = 1 => calls[1].text = Val(world.recipe.title)
        /\ Len(recipe_data.ingredients) = Len(TextItems)
        /\ \A j \in 1..Len(TextItems) :
              /\ j <= Len(recipe_data.ingredients)
              /\ TitleCalls + j <= Len(calls)
              /\ calls[TitleCalls + j].text = Val(TextItems[j].original)
              /\ recipe_data.ingredients[j].name_en = Val(TextItems[j].original)
              /\ recipe_data.ingredients[j].name_fr =
                    (IF calls[TitleCalls + j].outcome = "ok"
                     THEN <<"fr:">> \o Val(TextItems[j].original)
                     ELSE IF calls[TitleCalls + j].outcome = "DeepLError"
                     THEN <<"[Translation API Error]">>
                     ELSE <<"[Translation Error]">>)

\* a found recipe with a title, an entry without original text followed by
\* an entry with text, whose translation succeeded
C5_Witness ==
    /\ Returned /\ WellFormedFound
    /\ TitleCalls = 1
    /\ Len(world.recipe.extendedIngredients.items) = 2
    /\ ~HasText(world.recipe.extendedIngredients.items[1])
    /\ HasText(world.recipe.extendedIngredients.items[2])
    /\ Len(calls) = 2
    /\ calls[2].outcome = "ok"
    /\ Len(recipe_data.ingredients) = 1

\* C6 (as claimed): for a found recipe a failed translation leaves a
\* placeholder in that item only, every item is kept, the other items keep
\* their translations, error stays unset, and the boundary answers 200.
C6_Original ==
    /\ (Returned /\ WellFormedFound
           /\ \E k \in 1..Len(calls) : calls[k].outcome # "ok") =>
          /\ ~ErrorSet
          /\ Len(recipe_data.ingredients) = Len(TextItems)
          /\ TitleCalls = 1 =>
                (recipe_data.title_fr \in {Some(p) : p \in Placeholders}
                   <=> calls[1].outcome # "ok")
          /\ \A j \in 1..Len(recipe_data.ingredients) :
                recipe_data.ingredients[j].name_fr \in Placeholders
                   <=> calls[TitleCalls + j].outcome # "ok"
    /\ (Responded /\ Truthy(dish) /\ WellFormedFound
           /\ NumTranslatable(world.recipe) >= 1) =>
          (response.status = 200 /\ response.body = "envelope")

\* C7 (as claimed): a request without a dish name, or with an empty one,
\* makes no recipe-search call and no translation call and is answered 400
\* with the structured error body.
C7_Original ==
    (Responded /\ ~Truthy(dish)) =>
        /\ searches = 0
        /\ calls = <<>>
        /\ response.status = 400
        /\ response.body = "missing_param"

\* C8 (as claimed): every invocation returns an envelope holding all six
\* fields, and the HTTP caller of a request that names a dish always receives
\* that envelope as the body.
C8_Original ==
    /\ Returned =>
          DOMAIN recipe_data = {"title_en", "title_fr", "cooking_time_minutes",
                                "ingredients", "spoonacular_quota", "error"}
    /\ (Responded /\ Truthy(dish)) => response.body = "envelope"

\* C9 (as claimed): an envelope whose error is set was returned without any
\* translate_text call having been made.
C9_Original ==
    (Returned /\ ErrorSet) => calls = <<>>

\* C10 (as claimed): on 402 the quota fields of the envelope are the quota
\* headers of the answer (null where a header is missing) and error is set;
\* on 401 and 404 all quota fields are null.
C10_Original ==
    /\ (Returned /\ Answered(402)) =>
          /\ ErrorSet
          /\ recipe_data.spoonacular_quota =
                [request |-> world.headers.request,
                 used_total |-> world.headers.used,
                 left |-> world.headers.left]
    /\ (Returned /\ (Answered(401) \/ Answered(404))) =>
          recipe_data.spoonacular_quota =
                [request |-> None, used_total |-> None, left |-> None]

====
